---- MODULE Spec2Model ----
(***************************************************************************)
(* LambdaSpaceAPIv2: the occupancy state fed by statusChan, the event      *)
(* refresh driven by the five-minute ticker, and the read routes; and the  *)
(* earlier server.go, whose two routes poll the count on every request.    *)
(* Strings are sequences of one-character strings, so that splitting,      *)
(* pattern matching, joining and formatting are computed, not assumed.     *)
(***************************************************************************)
EXTENDS Integers, Sequences, FiniteSets, TLC

(* ------------------------------ bounds -------------------------------- *)
MaxTokens == 5
MaxTicks == 1
MaxRequests == 2
MaxClock == 2
MaxFeed == 2

(* ------------------------------ strings ------------------------------- *)
Digits == {"0", "1", "2", "3", "4", "5", "6", "7", "8", "9"}
Space == {" ", "\t"}
Dash == <<"-">>
BaseURL == <<"h","t","t","p","s",":","/","/","c","o","m","m","u","n","i","t","y",".","l","a","m","b","d","a","s","p","a","c","e",".","g","r","/","t","/">>

RECURSIVE Fields(_)
Fields(s) ==
  IF s = <<>> THEN <<>>
  ELSE IF Head(s) \in Space THEN Fields(Tail(s))
  ELSE LET rest == Fields(Tail(s))
       IN  IF Len(s) > 1 /\ s[2] \notin Space
           THEN <<(<<Head(s)>> \o Head(rest))>> \o Tail(rest)
           ELSE <<(<<Head(s)>>)>> \o rest

RECURSIVE Join(_, _)
Join(elems, sep) ==
  IF elems = <<>> THEN <<>>
  ELSE IF Len(elems) = 1 THEN elems[1]
  ELSE elems[1] \o sep \o Join(Tail(elems), sep)

DigitChar(d) == <<"0","1","2","3","4","5","6","7","8","9">>[d + 1]

RECURSIVE FormatNat(_)
FormatNat(n) == IF n < 10 THEN <<DigitChar(n)>> ELSE FormatNat(n \div 10) \o <<DigitChar(n % 10)>>

Itoa(n) == IF n < 0 THEN <<"-">> \o FormatNat(0 - n) ELSE FormatNat(n)

HasDigits(s, positions) == \A p \in positions : s[p] \in Digits

yearRegexpMatch(s) == Len(s) >= 10 /\ HasDigits(s, {1, 2, 4, 5, 7, 8, 9, 10}) /\ s[3] = "/" /\ s[6] = "/"

hourRegexpMatch(s) == Len(s) >= 5 /\ HasDigits(s, {1, 2, 4, 5}) /\ s[3] = ":"

Sprintf(slug, id) == BaseURL \o slug \o <<"/">> \o Itoa(id)

(* ------------------------- event extraction --------------------------- *)
HackerspaceEvents(title, date, begin, end, url) ==
  [Title |-> title, Date |-> date, Begin |-> begin, End |-> end, URL |-> url]

Topic(id, title, slug) == [ID |-> id, Title |-> title, Slug |-> slug]

(* Go indexes from 0; an index at or beyond the length panics at run time *)
InRange(fields, i) == i < Len(fields)
At(fields, i) == fields[i + 1]
SliceFrom(fields, i) == SubSeq(fields, i + 1, Len(fields))

Panics == [outcome |-> "panic"]
Dropped == [outcome |-> "drop"]
Appended(event) == [outcome |-> "append", event |-> event]

rangeTitleFromBroken(fields) == Join(SliceFrom(fields, 3), <<" ">>)
rangeTitleFrom(fields) == Join(SliceFrom(fields, 4), <<" ">>)

plainTitleFrom(fields) == Join(SliceFrom(fields, 2), <<" ">>)

(* one iteration of the loop over dat.TopicList.Topics *)
extractElement(element) ==
  LET fields == Fields(element.Title)
      url == Sprintf(element.Slug, element.ID)
  IN  IF ~InRange(fields, 0) THEN Panics
      ELSE IF ~yearRegexpMatch(At(fields, 0)) THEN Dropped
      ELSE IF ~InRange(fields, 1) THEN Panics
      ELSE IF ~hourRegexpMatch(At(fields, 1)) THEN Dropped
      ELSE IF ~InRange(fields, 2) THEN Panics
      ELSE IF At(fields, 2) = Dash
           THEN IF ~InRange(fields, 3) THEN Panics
                ELSE IF hourRegexpMatch(At(fields, 3))
                     THEN Appended(HackerspaceEvents(rangeTitleFrom(fields), At(fields, 0),
                                                    At(fields, 1), At(fields, 3), url))
                     ELSE Appended(HackerspaceEvents(plainTitleFrom(fields), At(fields, 0),
                                                    At(fields, 1), <<>>, url))
      ELSE Appended(HackerspaceEvents(plainTitleFrom(fields), At(fields, 0),
                                     At(fields, 1), <<>>, url))

(* ------------------------------ inputs -------------------------------- *)
DateTok == <<"1","2","/","0","5","/","2","0","2","4">>
DateTrailTok == <<"1","2","/","0","5","/","2","0","2","4","x">>
TimeTok == <<"1","8",":","0","0">>
EndTimeTok == <<"2","0",":","0","0">>
TimeTrailTok == <<"1","8",":","0","0","h">>
WordTok == <<"M","e","e","t","u","p">>
RangeTitle == <<"1","2","/","0","5","/","2","0","2","4"," ","1","8",":","0","0"," ","-"," ","2","0",":","0","0"," ","L","o","c","k","p","i","c","k","i","n","g"," ","W","o","r","k","s","h","o","p">>
FallbackTitle == <<"1","2","/","0","5","/","2","0","2","4"," ","1","8",":","0","0"," ","G","e","n","e","r","a","l"," ","M","e","e","t","u","p">>
NoDateTitle == <<"O","p","e","n"," ","S","o","c","i","a","l"," ","N","i","g","h","t">>
RangeSlug == <<"l","o","c","k","p","i","c","k","i","n","g","-","n","i","g","h","t">>
PlainSlug == <<"m","e","e","t","u","p">>

TokenSet == {DateTok, DateTrailTok, TimeTok, TimeTrailTok, Dash, WordTok}
TokenSeqs == UNION {[1..k -> TokenSet] : k \in 0..MaxTokens}

(* the two ways a title's tokens are laid out: single blanks, or padded *)
Tight == [lead |-> <<>>, sep |-> <<" ">>, trail |-> <<>>]
Padded == [lead |-> <<" ">>, sep |-> <<" ", "\t">>, trail |-> <<" ">>]
Glue(toks, style) == style.lead \o Join(toks, style.sep) \o style.trail

ShortSeqs == {toks \in TokenSeqs : Len(toks) <= 2}
RangeSeq == <<DateTok, TimeTok, Dash, EndTimeTok, WordTok>>
GeneratedTitles == {Glue(toks, Tight) : toks \in TokenSeqs}
PaddedTitles == {Glue(toks, Padded) : toks \in ShortSeqs \cup {RangeSeq}}
LiteralTitles == {RangeTitle, FallbackTitle, NoDateTitle}
GoodTopic == Topic(7, FallbackTitle, PlainSlug)
ExtractTopics == {Topic(42, t, RangeSlug) : t \in GeneratedTitles \cup PaddedTitles \cup LiteralTitles}
                   \cup {Topic(1305, t, PlainSlug) : t \in LiteralTitles}
PairedTopics == {Topic(42, Glue(toks, Tight), RangeSlug) : toks \in ShortSeqs}
ExtractBatches == {<<t>> : t \in ExtractTopics}
                    \cup {<<GoodTopic, t>> : t \in PairedTopics}
                    \cup {<<t, GoodTopic>> : t \in PairedTopics}

(* the batches the remote source serves while the whole program runs: an   *)
(* empty list, a title that is dropped, an empty title, one event, and a    *)
(* dropped title followed by a different event                              *)
BlankTopic == Topic(3, <<>>, PlainSlug)
DroppedTopic == Topic(5, WordTok, PlainSlug)
RangeTopic == Topic(42, Glue(RangeSeq, Tight), RangeSlug)
SmallBatches == {<<>>, <<DroppedTopic>>, <<BlankTopic>>, <<GoodTopic>>, <<DroppedTopic, RangeTopic>>}

(* what httpClient.Get and ioutil.ReadAll can come back with *)
(* (status is the response's StatusCode; there is no response, and so no    *)
(* status, with a network error)                                            *)
NetError == [kind |-> "neterr", topics |-> <<>>, status |-> 0]
ReadError == [kind |-> "readerr", topics |-> <<>>, status |-> 200]
BadJSON == [kind |-> "badjson", topics |-> <<>>, status |-> 200]
Body(topics) == [kind |-> "ok", topics |-> topics, status |-> 200]
(* the same answer sent with another status line *)
WithStatus(resp, code) == [resp EXCEPT !.status = code]
Failures == {NetError, ReadError, BadJSON}
(* answers with a status that is not 2xx: an error page, and a topic list  *)
(* with well-formed titles                                                  *)
ErrorBatch == <<DroppedTopic, RangeTopic>>
NonSuccess == {WithStatus(BadJSON, 500), WithStatus(Body(ErrorBatch), 500)}
Responses ==
  Failures \cup {Body(b) : b \in SmallBatches \ {ErrorBatch}} \cup NonSuccess
ExtractResponses == {Body(b) : b \in ExtractBatches}

(* the counts the feed delivers: negative, zero and positive *)
Counts == {0 - 1, 0, 1}
(* what getJSONFile returns: the descriptor of the file, with its sensor    *)
(* entry, or without one (zero-valued when the file is missing or is not    *)
(* JSON)                                                                    *)
ZeroDescriptor == [PeopleNowPresent |-> <<>>, Open |-> FALSE, Lastchange |-> 0]
Descriptors ==
  {ZeroDescriptor}
    \cup {[PeopleNowPresent |-> entries, Open |-> open, Lastchange |-> 0] :
            entries \in {<<>>, <<0>>}, open \in BOOLEAN}
Routes == {"SpaceAPI", "status", "hackers", "events"}
(* the immediate refresh and one per tick can all be in flight at once *)
Refreshers == 1..(MaxTicks + 1)
Requests == 1..MaxRequests
None == 0

(* ------------------------------- state -------------------------------- *)
VARIABLES
  schedPc, ticks, crashed, now,
  peoplePresent, spaceStatus, lastChange, sdW, sdReaders,
  usPc, numOfPeople, previousPeoplePresent, ingested,
  delivered, applied,
  Events, seW, seReaders,
  rpc, dat, idx, ret, StatusCode,
  hpc, hroute, hresp,
  legacyDescriptor, writtenBy, lpc, lroute, data, lopen, lresp

schedVars == <<schedPc, ticks>>
presenceVars == <<peoplePresent, spaceStatus, lastChange>>
usVars == <<usPc, numOfPeople, previousPeoplePresent, ingested>>
(* history of the feed, kept for the claims about it: the counts received   *)
(* from statusChan and the counts line 147 stored, oldest first. No action  *)
(* of the program reads them; the specification that states those claims    *)
(* records them.                                                            *)
feedVars == <<delivered, applied>>
(* server.go: the descriptor its two handlers share, and each request's own *)
(* position and values. writtenBy names the request that wrote each field   *)
(* last; the program does not keep it.                                      *)
legacyVars == <<legacyDescriptor, writtenBy, lpc, lroute, data, lopen, lresp>>
refreshVars == <<rpc, dat, idx, ret, StatusCode>>
handlerVars == <<hpc, hroute, hresp>>
vars == <<schedPc, ticks, crashed, now, peoplePresent, spaceStatus, lastChange, sdW, sdReaders,
          usPc, numOfPeople, previousPeoplePresent, ingested, delivered, applied,
          Events, seW, seReaders,
          rpc, dat, idx, ret, StatusCode, hpc, hroute, hresp,
          legacyDescriptor, writtenBy, lpc, lroute, data, lopen, lresp>>

(* what a handler has read so far; got names the fields already read *)
NoSnapshot == [got |-> {}, open |-> FALSE, count |-> 0, lastchange |-> 0, events |-> <<>>]

(* what a request of server.go has put in its response so far, and the     *)
(* request that wrote each value                                            *)
NoLegacyResponse == [open |-> FALSE, openBy |-> None, count |-> 0, countBy |-> None]

(* the state when init() is entered: the package variables hold their zero *)
(* values                                                                   *)
Init ==
  /\ schedPc = "init" /\ ticks = 0 /\ crashed = FALSE /\ now = 0
  /\ peoplePresent = 0 /\ spaceStatus = FALSE /\ lastChange = 0
  /\ sdW = None /\ sdReaders = {}
  /\ usPc = "off" /\ numOfPeople = 0 /\ previousPeoplePresent = 0 /\ ingested = FALSE
  /\ delivered = <<>> /\ applied = <<>>
  /\ Events = <<>> /\ seW = None /\ seReaders = {}
  /\ rpc = [g \in Refreshers |-> "idle"]
  /\ dat = [g \in Refreshers |-> <<>>]
  /\ idx = [g \in Refreshers |-> 0]
  /\ ret = [g \in Refreshers |-> <<>>]
  /\ StatusCode = [g \in Refreshers |-> 0]
  /\ hpc = [r \in Requests |-> "idle"]
  /\ hroute = [r \in Requests |-> "none"]
  /\ hresp = [r \in Requests |-> NoSnapshot]
  /\ legacyDescriptor = [Value |-> 0, Open |-> FALSE]
  /\ writtenBy = [Value |-> None, Open |-> None]
  /\ lpc = [q \in Requests |-> "idle"]
  /\ lroute = [q \in Requests |-> "none"]
  /\ data = [q \in Requests |-> 0]
  /\ lopen = [q \in Requests |-> FALSE]
  /\ lresp = [q \in Requests |-> NoLegacyResponse]

(* ------------------------------- init --------------------------------- *)
(* lines 94-97. getJSONFile returns what json.Unmarshal made of the file:   *)
(* the zero-valued descriptor when the file is missing or is not JSON       *)
(* (check only logs). Line 95 then takes the address of element 0 of        *)
(* Sensors.PeopleNowPresent: with no element this is an index out of range, *)
(* a panic inside init() that ends the process before main runs. Otherwise  *)
(* the three pointers are set and the background goroutine is created.      *)
Load(file) ==
  /\ ~crashed /\ schedPc = "init"
  /\ IF Len(file.PeopleNowPresent) = 0
     THEN /\ crashed' = TRUE
          /\ schedPc' = "indexOutOfRange"
          /\ UNCHANGED presenceVars
     ELSE /\ crashed' = crashed
          /\ schedPc' = "start"
          /\ peoplePresent' = file.PeopleNowPresent[1]
          /\ spaceStatus' = file.Open
          /\ lastChange' = file.Lastchange
  /\ UNCHANGED <<ticks, now, sdW, sdReaders, usVars, feedVars, legacyVars, Events, seW, seReaders,
                 refreshVars, handlerVars>>

(* ----------------------------- scheduler ------------------------------ *)
(* go getScheduledEvents(): goroutine g starts. The goroutines are numbered *)
(* in the order the scheduler starts them: 1 at startup, then ticks + 1     *)
SpawnBroken(g) == UNCHANGED rpc
Spawn(g) ==
  /\ rpc[g] = "idle"
  /\ rpc' = [rpc EXCEPT ![g] = "get"]

(* lines 99-100: start the ingestion loop and the immediate refresh *)
Startup ==
  /\ ~crashed /\ schedPc = "start"
  /\ schedPc' = "ticking"
  /\ usPc' = "recv"
  /\ Spawn(1)
  /\ UNCHANGED <<ticks, crashed, now, presenceVars, sdW, sdReaders, numOfPeople,
                 previousPeoplePresent, ingested, feedVars, legacyVars, Events, seW, seReaders,
                 dat, idx, ret, StatusCode, handlerVars>>

(* lines 101-103: one iteration of the loop over time.Tick *)
TimerTick ==
  /\ ~crashed /\ schedPc = "ticking" /\ ticks < MaxTicks
  /\ ticks' = ticks + 1
  /\ Spawn(ticks' + 1)
  /\ UNCHANGED <<schedPc, crashed, now, presenceVars, sdW, sdReaders, usVars, feedVars, legacyVars,
                 Events, seW, seReaders, dat, idx, ret, StatusCode, handlerVars>>

(* ------------------------ getScheduledEvents -------------------------- *)
refreshFrame == <<schedVars, now, presenceVars, sdW, sdReaders, usVars, feedVars, legacyVars, handlerVars>>

(* the goroutine returns without having published (line 165, or line 196  *)
(* with nothing to publish)                                                 *)
Exit(g) ==
  /\ rpc' = [rpc EXCEPT ![g] = "returned"]
  /\ dat' = [dat EXCEPT ![g] = <<>>]
  /\ idx' = [idx EXCEPT ![g] = 0]
  /\ ret' = [ret EXCEPT ![g] = <<>>]
  /\ StatusCode' = [StatusCode EXCEPT ![g] = 0]

(* lines 130-140 and 161-168. httpClient.Get returns a response, or nil and *)
(* an error; defer response.Body.Close() dereferences a nil response and    *)
(* panics in a goroutine nothing recovers. A read error makes               *)
(* getScheduledEvents return; otherwise the body is unmarshalled into dat   *)
(* (a body that is not JSON leaves dat empty).                              *)
FetchResult(g, resp) ==
  /\ CASE resp.kind = "neterr" ->
            /\ crashed' = TRUE
            /\ rpc' = [rpc EXCEPT ![g] = "nilResponse"]
            /\ UNCHANGED <<dat, idx, ret, StatusCode>>
       [] resp.kind = "readerr" ->
            /\ crashed' = crashed
            /\ Exit(g)
       [] OTHER ->
            /\ crashed' = crashed
            /\ rpc' = [rpc EXCEPT ![g] = "loop"]
            /\ dat' = [dat EXCEPT ![g] = resp.topics]
            /\ StatusCode' = [StatusCode EXCEPT ![g] = resp.status]
            /\ UNCHANGED <<idx, ret>>
  /\ UNCHANGED <<refreshFrame, Events, seW, seReaders>>

(* the fetch against a remote source that answers with one of responses *)
Fetch(g, responses) ==
  /\ ~crashed /\ rpc[g] = "get"
  /\ \E resp \in responses : FetchResult(g, resp)

(* the range loop of lines 170-195 from element i on: it ends after the     *)
(* last element, or at the first element that panics                        *)
RECURSIVE extractAll(_, _, _)
extractAll(topics, i, acc) ==
  IF ~InRange(topics, i) THEN [outcome |-> "done", idx |-> i, ret |-> acc]
  ELSE LET res == extractElement(At(topics, i))
       IN  IF res.outcome = "panic" THEN [outcome |-> "panic", idx |-> i, ret |-> acc]
           ELSE extractAll(topics, i + 1,
                           IF res.outcome = "append" THEN Append(acc, res.event) ELSE acc)

publishGuardBroken(r) == TRUE
publishGuard(r) == Len(r) > 0

(* lines 170-196: the loop, then only a non-empty result is published. A   *)
(* panic stops the process with the goroutine at element idx               *)
Extract(g) ==
  /\ ~crashed /\ rpc[g] = "loop"
  /\ LET res == extractAll(dat[g], 0, <<>>)
     IN  IF res.outcome = "panic"
         THEN /\ crashed' = TRUE
              /\ rpc' = [rpc EXCEPT ![g] = "indexOutOfRange"]
              /\ idx' = [idx EXCEPT ![g] = res.idx]
              /\ ret' = [ret EXCEPT ![g] = res.ret]
              /\ UNCHANGED <<dat, StatusCode>>
         ELSE /\ crashed' = crashed
              /\ IF publishGuard(res.ret)
                 THEN /\ rpc' = [rpc EXCEPT ![g] = "lock"]
                      /\ ret' = [ret EXCEPT ![g] = res.ret]
                      /\ dat' = [dat EXCEPT ![g] = <<>>]
                      /\ UNCHANGED <<idx, StatusCode>>
                 ELSE Exit(g)
  /\ UNCHANGED <<refreshFrame, Events, seW, seReaders>>

(* line 197: spaceEvents.Lock() first excludes other writers and new        *)
(* readers, then waits for the readers that are in to leave                 *)
EventsLock(g) ==
  /\ ~crashed /\ rpc[g] = "lock" /\ seW = None
  /\ seW' = g
  /\ rpc' = [rpc EXCEPT ![g] = "lockWait"]
  /\ UNCHANGED <<refreshFrame, crashed, Events, seReaders, dat, idx, ret, StatusCode>>

EventsLockedBroken(g) ==
  /\ ~crashed /\ rpc[g] = "lockWait"
  /\ rpc' = [rpc EXCEPT ![g] = "assign"]
  /\ UNCHANGED <<refreshFrame, crashed, Events, seW, seReaders, dat, idx, ret, StatusCode>>
EventsLocked(g) ==
  /\ ~crashed /\ rpc[g] = "lockWait" /\ seReaders = {}
  /\ rpc' = [rpc EXCEPT ![g] = "assign"]
  /\ UNCHANGED <<refreshFrame, crashed, Events, seW, seReaders, dat, idx, ret, StatusCode>>

(* line 198 *)
Assign(g) ==
  /\ ~crashed /\ rpc[g] = "assign"
  /\ Events' = ret[g]
  /\ rpc' = [rpc EXCEPT ![g] = "unlock"]
  /\ UNCHANGED <<refreshFrame, crashed, seW, seReaders, dat, idx, ret, StatusCode>>

(* line 199, and the goroutine ends having published *)
EventsUnlock(g) ==
  /\ ~crashed /\ rpc[g] = "unlock"
  /\ seW' = None
  /\ rpc' = [rpc EXCEPT ![g] = "published"]
  /\ dat' = [dat EXCEPT ![g] = <<>>]
  /\ idx' = [idx EXCEPT ![g] = 0]
  /\ ret' = [ret EXCEPT ![g] = <<>>]
  /\ StatusCode' = [StatusCode EXCEPT ![g] = 0]
  /\ UNCHANGED <<refreshFrame, crashed, Events, seReaders>>

Refresh(g) ==
  \/ Extract(g)
  \/ EventsLock(g) \/ EventsLocked(g) \/ Assign(g) \/ EventsUnlock(g)

(* ---------------------------- updateStatus ---------------------------- *)
ingestFrame == <<schedVars, crashed, Events, seW, seReaders, refreshVars, handlerVars, legacyVars>>

(* line 144: the range over statusChan receives the next count of the feed *)
Receive(c) ==
  /\ ~crashed /\ usPc = "recv"
  /\ numOfPeople' = c
  /\ usPc' = "lock"
  /\ UNCHANGED <<ingestFrame, now, presenceVars, sdW, sdReaders, previousPeoplePresent, ingested>>

(* line 145: spaceDescriptor.Lock() excludes new readers, then waits for    *)
(* the readers that are in to leave                                         *)
StatusLock ==
  /\ ~crashed /\ usPc = "lock" /\ sdW = None
  /\ sdW' = 1
  /\ usPc' = "lockWait"
  /\ UNCHANGED <<ingestFrame, now, presenceVars, sdReaders, numOfPeople, previousPeoplePresent, ingested>>

StatusLocked ==
  /\ ~crashed /\ usPc = "lockWait" /\ sdReaders = {}
  /\ usPc' = "l146"
  /\ UNCHANGED <<ingestFrame, now, presenceVars, sdW, sdReaders, numOfPeople, previousPeoplePresent, ingested>>

(* line 146 *)
ReadPrevious ==
  /\ ~crashed /\ usPc = "l146"
  /\ previousPeoplePresent' = peoplePresent
  /\ usPc' = "l147"
  /\ UNCHANGED <<ingestFrame, now, presenceVars, sdW, sdReaders, numOfPeople, ingested>>

WriteCountBroken ==
  /\ ~crashed /\ usPc = "l147"
  /\ peoplePresent' = previousPeoplePresent
  /\ usPc' = "l148"
  /\ UNCHANGED <<ingestFrame, now, spaceStatus, lastChange, sdW, sdReaders, numOfPeople,
                 previousPeoplePresent, ingested>>

(* line 147 *)
WriteCount ==
  /\ ~crashed /\ usPc = "l147"
  /\ peoplePresent' = numOfPeople
  /\ usPc' = "l148"
  /\ UNCHANGED <<ingestFrame, now, spaceStatus, lastChange, sdW, sdReaders, numOfPeople,
                 previousPeoplePresent, ingested>>

isOpenBroken(n) == n # 0
isOpen(n) == n > 0

(* line 148 *)
WriteStatus ==
  /\ ~crashed /\ usPc = "l148"
  /\ spaceStatus' = isOpen(peoplePresent)
  /\ usPc' = "l149"
  /\ UNCHANGED <<ingestFrame, now, peoplePresent, lastChange, sdW, sdReaders, numOfPeople,
                 previousPeoplePresent, ingested>>

countChangedBroken(previous, current) == TRUE
countChanged(previous, current) == previous # current

(* lines 149-151 *)
WriteLastChange ==
  /\ ~crashed /\ usPc = "l149"
  /\ lastChange' = IF countChanged(previousPeoplePresent, peoplePresent) THEN now ELSE lastChange
  /\ usPc' = "l152"
  /\ UNCHANGED <<ingestFrame, now, peoplePresent, spaceStatus, sdW, sdReaders, numOfPeople,
                 previousPeoplePresent, ingested>>

(* line 152, and back to the head of the loop *)
StatusUnlock ==
  /\ ~crashed /\ usPc = "l152"
  /\ sdW' = None
  /\ ingested' = TRUE
  /\ usPc' = "recv"
  /\ numOfPeople' = 0
  /\ previousPeoplePresent' = 0
  /\ UNCHANGED <<ingestFrame, now, presenceVars, sdReaders>>

UpdateStatus ==
  \/ StatusLock \/ StatusLocked \/ ReadPrevious \/ WriteCount
  \/ WriteStatus \/ WriteLastChange \/ StatusUnlock

(* time.Now().Unix() moves on between steps *)
ClockTick ==
  /\ ~crashed /\ now < MaxClock
  /\ now' = now + 1
  /\ UNCHANGED <<schedVars, crashed, presenceVars, sdW, sdReaders, usVars, feedVars, legacyVars, Events, seW,
                 seReaders, refreshVars, handlerVars>>

(* --------------------------- route handlers --------------------------- *)
handlerFrame == <<schedVars, crashed, now, presenceVars, sdW, usVars, feedVars, legacyVars, Events, seW, refreshVars>>

(* the lock each handler takes: lines 204, 225, 232, 240 *)
LockOf(route) == IF route \in {"SpaceAPI", "status"} THEN "spaceDescriptor" ELSE "spaceEvents"

(* the shared fields each handler reads, in the order it reads them:        *)
(* Status{*spaceStatus, *peoplePresent, *lastChange} on line 227, the       *)
(* descriptor's fields in declaration order on line 206                     *)
ReadOrder(route) ==
  CASE route = "status" -> <<"open", "count", "lastchange">>
    [] route = "SpaceAPI" -> <<"open", "lastchange", "count">>
    [] route = "hackers" -> <<"count">>
    [] route = "events" -> <<"events">>

Shared(field) ==
  CASE field = "open" -> spaceStatus
    [] field = "count" -> peoplePresent
    [] field = "lastchange" -> lastChange
    [] field = "events" -> Events

Pending(r) == SelectSeq(ReadOrder(hroute[r]), LAMBDA f : f \notin hresp[r].got)

Request(r, route) ==
  /\ ~crashed /\ schedPc \notin {"init", "indexOutOfRange"} /\ hpc[r] = "idle"
  /\ hpc' = [hpc EXCEPT ![r] = "rlock"]
  /\ hroute' = [hroute EXCEPT ![r] = route]
  /\ UNCHANGED <<handlerFrame, sdReaders, seReaders, hresp>>

canRLockBroken(writer) == TRUE
canRLock(writer) == writer = None

(* RLock(): blocked while a writer holds the lock or is waiting for it *)
HandlerRLock(r) ==
  /\ ~crashed /\ hpc[r] = "rlock"
  /\ IF LockOf(hroute[r]) = "spaceDescriptor"
     THEN /\ canRLock(sdW)
          /\ sdReaders' = sdReaders \cup {r}
          /\ UNCHANGED seReaders
     ELSE /\ canRLock(seW)
          /\ seReaders' = seReaders \cup {r}
          /\ UNCHANGED sdReaders
  /\ hpc' = [hpc EXCEPT ![r] = "read"]
  /\ UNCHANGED <<handlerFrame, hroute, hresp>>

HandlerRead(r) ==
  /\ ~crashed /\ hpc[r] = "read"
  /\ LET field == Head(Pending(r))
     IN  /\ hresp' = [hresp EXCEPT ![r][field] = Shared(field), ![r].got = @ \cup {field}]
         /\ hpc' = [hpc EXCEPT ![r] = IF Len(Pending(r)) = 1 THEN "respond" ELSE "read"]
  /\ UNCHANGED <<handlerFrame, sdReaders, seReaders, hroute>>

(* the response is written, then the deferred RUnlock runs *)
HandlerRespond(r) ==
  /\ ~crashed /\ hpc[r] = "respond"
  /\ sdReaders' = sdReaders \ {r}
  /\ seReaders' = seReaders \ {r}
  /\ hpc' = [hpc EXCEPT ![r] = "idle"]
  /\ hroute' = [hroute EXCEPT ![r] = "none"]
  /\ hresp' = [hresp EXCEPT ![r] = NoSnapshot]
  /\ UNCHANGED handlerFrame

Handler(r) == HandlerRLock(r) \/ HandlerRead(r) \/ HandlerRespond(r)

(* ------------------------------ server.go ----------------------------- *)
(* The handlers of server.go (lines 87-100) run one goroutine per request   *)
(* and write and read the descriptor main loaded with no lock; each access  *)
(* to a field is a step of its own. A request is numbered once and never    *)
(* reuses its number.                                                       *)
legacyFrame == <<schedVars, crashed, now, presenceVars, sdW, sdReaders, usVars, feedVars,
                 Events, seW, seReaders, refreshVars, handlerVars>>

LegacyRequest(q, route) ==
  /\ lpc[q] = "idle"
  /\ lpc' = [lpc EXCEPT ![q] = "peopleInSpace"]
  /\ lroute' = [lroute EXCEPT ![q] = route]
  /\ UNCHANGED <<legacyFrame, legacyDescriptor, writtenBy, data, lopen, lresp>>

(* lines 72-82: the count hackers.txt holds now (0 when it is no number),   *)
(* or no response at all: resp is nil, the deferred resp.Body.Close()       *)
(* panics, net/http recovers the panic and the request ends unanswered      *)
PeopleInSpace(q, result) ==
  /\ lpc[q] = "peopleInSpace"
  /\ IF result.kind = "neterr"
     THEN /\ lpc' = [lpc EXCEPT ![q] = "nilResponse"]
          /\ UNCHANGED data
     ELSE /\ lpc' = [lpc EXCEPT ![q] = "writeValue"]
          /\ data' = [data EXCEPT ![q] = result.data]
  /\ UNCHANGED <<legacyFrame, legacyDescriptor, writtenBy, lroute, lopen, lresp>>

(* lines 90 and 97: the store into PeopleNowPresent[0].Value *)
LegacyWriteValue(q) ==
  /\ lpc[q] = "writeValue"
  /\ legacyDescriptor' = [legacyDescriptor EXCEPT !.Value = data[q]]
  /\ writtenBy' = [writtenBy EXCEPT !.Value = q]
  /\ lpc' = [lpc EXCEPT ![q] = "readValue"]
  /\ UNCHANGED <<legacyFrame, lroute, data, lopen, lresp>>

(* lines 91 and 98, right-hand side: Value is read back from the descriptor *)
LegacyReadValue(q) ==
  /\ lpc[q] = "readValue"
  /\ lopen' = [lopen EXCEPT ![q] = legacyDescriptor.Value > 0]
  /\ lpc' = [lpc EXCEPT ![q] = "writeOpen"]
  /\ UNCHANGED <<legacyFrame, legacyDescriptor, writtenBy, lroute, data, lresp>>

(* lines 91 and 98: the store into State.Open *)
LegacyWriteOpen(q) ==
  /\ lpc[q] = "writeOpen"
  /\ legacyDescriptor' = [legacyDescriptor EXCEPT !.Open = lopen[q]]
  /\ writtenBy' = [writtenBy EXCEPT !.Open = q]
  /\ lpc' = [lpc EXCEPT ![q] = "copy"]
  /\ UNCHANGED <<legacyFrame, lroute, data, lopen, lresp>>

(* lines 92 and 99: the argument of c.JSON is copied: spaceDescriptor.State *)
(* for the status route, the whole struct for SpaceAPI (its slice           *)
(* PeopleNowPresent still points to the shared element)                     *)
LegacyCopy(q) ==
  /\ lpc[q] = "copy"
  /\ lresp' = [lresp EXCEPT ![q].open = legacyDescriptor.Open, ![q].openBy = writtenBy.Open]
  /\ lpc' = [lpc EXCEPT ![q] = IF lroute[q] = "SpaceAPI" THEN "encode" ELSE "responded"]
  /\ UNCHANGED <<legacyFrame, legacyDescriptor, writtenBy, lroute, data, lopen>>

(* line 92: the encoder gets to sensors.people_now_present and reads Value *)
LegacyEncode(q) ==
  /\ lpc[q] = "encode"
  /\ lresp' = [lresp EXCEPT ![q].count = legacyDescriptor.Value, ![q].countBy = writtenBy.Value]
  /\ lpc' = [lpc EXCEPT ![q] = "responded"]
  /\ UNCHANGED <<legacyFrame, legacyDescriptor, writtenBy, lroute, data, lopen>>

LegacyHandler(q) ==
  \/ LegacyWriteValue(q) \/ LegacyReadValue(q) \/ LegacyWriteOpen(q)
  \/ LegacyCopy(q) \/ LegacyEncode(q)

(* -------------------------- specifications ---------------------------- *)
OccupancyRoutes == {"SpaceAPI", "status", "hackers"}
EventRoutes == {"events"}

(* the whole program; the specifications after it each take a part of it   *)
Next ==
  \/ \E file \in Descriptors : Load(file)
  \/ Startup \/ TimerTick \/ ClockTick
  \/ \E g \in Refreshers : Fetch(g, Responses)
  \/ \E g \in Refreshers : Refresh(g)
  \/ (\E c \in Counts : Receive(c)) /\ UNCHANGED feedVars
  \/ UpdateStatus /\ UNCHANGED feedVars
  \/ \E r \in Requests : \E route \in Routes : Request(r, route)
  \/ \E r \in Requests : Handler(r)

Spec == Init /\ [][Next]_vars

(* the occupancy state, its feed and the routes that read it *)
NextPresence ==
  \/ \E file \in Descriptors : Load(file)
  \/ Startup \/ ClockTick
  \/ (\E c \in Counts : Receive(c)) /\ UNCHANGED feedVars
  \/ UpdateStatus /\ UNCHANGED feedVars
  \/ \E r \in Requests : \E route \in OccupancyRoutes : Request(r, route)
  \/ \E r \in Requests : Handler(r)

SpecPresence == Init /\ [][NextPresence]_vars

(* the scheduler, the refreshes it starts and the events route *)
NextEvents ==
  \/ \E file \in Descriptors : Load(file)
  \/ Startup \/ TimerTick
  \/ \E g \in Refreshers : Fetch(g, Responses)
  \/ \E g \in Refreshers : Refresh(g)
  \/ \E r \in Requests : \E route \in EventRoutes : Request(r, route)
  \/ \E r \in Requests : Handler(r)

SpecEvents == Init /\ [][NextEvents]_vars

(* the feed and its history, with the readers of the status route and the  *)
(* refresh of startup running beside it                                     *)
FeedRoutes == {"status"}
FeedResponses == {NetError, ReadError, Body(<<GoodTopic>>)}

NextFeed ==
  \/ \E file \in Descriptors : Load(file)
  \/ Startup
  \/ \E c \in Counts :
       /\ Len(delivered) < MaxFeed
       /\ Receive(c)
       /\ delivered' = Append(delivered, c)
       /\ UNCHANGED applied
  \/ WriteCount /\ applied' = Append(applied, peoplePresent') /\ UNCHANGED delivered
  \/ /\ \/ StatusLock \/ StatusLocked \/ ReadPrevious
        \/ WriteStatus \/ WriteLastChange \/ StatusUnlock
     /\ UNCHANGED feedVars
  \/ \E g \in Refreshers : Fetch(g, FeedResponses)
  \/ \E g \in Refreshers : Refresh(g)
  \/ \E r \in Requests : \E route \in FeedRoutes : Request(r, route)
  \/ \E r \in Requests : Handler(r)

SpecFeed == Init /\ [][NextFeed]_vars

(* server.go: its two routes under concurrent requests *)
LegacyRoutes == {"SpaceAPI", "status"}
LegacyResults == {[kind |-> "neterr", data |-> 0]} \cup {[kind |-> "ok", data |-> n] : n \in 0..1}

NextLegacy ==
  \/ \E q \in Requests : \E route \in LegacyRoutes : LegacyRequest(q, route)
  \/ \E q \in Requests : \E result \in LegacyResults : PeopleInSpace(q, result)
  \/ \E q \in Requests : LegacyHandler(q)

SpecLegacy == Init /\ [][NextLegacy]_vars

(* the extractor on its own: one refresh over the generated titles *)
NextExtract ==
  \/ \E file \in Descriptors : Load(file)
  \/ Startup
  \/ \E g \in Refreshers : Fetch(g, ExtractResponses)
  \/ \E g \in Refreshers : Refresh(g)

SpecExtract == Init /\ [][NextExtract]_vars

(* ============================== claims ================================ *)
(* updateStatus between its Lock and its Unlock *)
Critical == {"l146", "l147", "l148", "l149", "l152"}

(* C1: after every ingestion, whatever integers were ingested (zero and    *)
(* negative ones too), the open flag equals (count > 0). An ingestion is in *)
(* progress, with the count written and the flag not yet, only at line 148. *)
C1_OpenIffPositive ==
  (ingested /\ usPc # "l148") => (spaceStatus = (peoplePresent > 0))

(* a negative count has been ingested and the space shows closed *)
C1_Witness ==
  ingested /\ usPc = "recv" /\ peoplePresent < 0 /\ spaceStatus = FALSE

(* C2: an ingestion of c over the stored count p rewrites the last-change   *)
(* timestamp (with the current time) if and only if c # p, and nothing else *)
(* ever writes it; so repeating a count leaves the timestamp of its first   *)
(* ingestion in place. p is what line 146 read, which is the stored count.  *)
C2_ChangeDetection ==
  [][/\ (usPc = "l147" => previousPeoplePresent = peoplePresent)
     /\ (usPc = "l149" /\ usPc' = "l152"
           => lastChange' = IF numOfPeople # previousPeoplePresent THEN now ELSE lastChange)
     /\ (~(usPc = "l149" /\ usPc' = "l152") => lastChange' = lastChange)]_vars

(* a count was ingested again later and the timestamp of the earlier       *)
(* change is still in place                                                 *)
C2_Witness ==
  /\ ingested /\ usPc = "l152" /\ numOfPeople = previousPeoplePresent
  /\ lastChange > 0 /\ lastChange < now

Triple(snapshot) == <<snapshot.count, snapshot.open, snapshot.lastchange>>

(* C3: every response of the status route and of the SpaceAPI route        *)
(* carries the (count, open, lastchange) that one ingestion left behind (or *)
(* the initial values): it is the stored triple at a moment when no         *)
(* ingestion is under way, never a mix of two ingestions.                   *)
C3_NoTornRead ==
  \A r \in Requests :
    (hpc[r] = "respond" /\ hroute[r] \in {"status", "SpaceAPI"})
      => /\ Triple(hresp[r]) = <<peoplePresent, spaceStatus, lastChange>>
         /\ usPc \notin Critical
         /\ (ingested => hresp[r].open = (hresp[r].count > 0))

(* two reads are in at once after an ingestion, one of them complete,      *)
(* while the next ingestion waits for the lock                              *)
C3_Witness ==
  \E r \in Requests : \E q \in Requests \ {r} :
    /\ hpc[r] = "respond" /\ hroute[r] = "status" /\ hresp[r].count # 0
    /\ hpc[q] = "read" /\ hroute[q] = "SpaceAPI"
    /\ ingested /\ usPc = "lockWait"

(* C4: every handler that reads the occupancy state does so holding the    *)
(* occupancy state's own lock, so never while updateStatus is between its   *)
(* Lock and Unlock; the legacy hackers route included.                      *)
C4_AccessUnderOwnLock ==
  \A r \in Requests :
    (hpc[r] = "read" /\ (\E k \in 1..Len(Pending(r)) : Pending(r)[k] \in {"count", "open", "lastchange"}))
      => (r \in sdReaders /\ usPc \notin Critical)

Publishing == {"lock", "lockWait", "assign", "unlock"}

(* C5: a refresh that extracted no record never gets to publish, and the   *)
(* published set is never replaced by an empty one: once non-empty it       *)
(* stays non-empty.                                                         *)
C5_StalePreference ==
  [][/\ (Events' # Events => Events' # <<>>)
     /\ (Events # <<>> => Events' # <<>>)
     /\ \A g \in Refreshers : (rpc'[g] \in Publishing => ret'[g] # <<>>)]_vars

(* events are published and a later refresh is about to extract nothing *)
C5_Witness ==
  /\ Events # <<>>
  /\ \E g \in Refreshers : rpc[g] = "loop" /\ dat[g] \in {<<>>, <<DroppedTopic>>}

(* C6: a refresh whose fetch failed with a network error leaves the        *)
(* process running (and the published set as it was).                       *)
C6_NetworkErrorSurvived ==
  \A g \in Refreshers : (rpc[g] = "nilResponse") => ~crashed

(* ---- the claims about the extractor, in the words of the grammar ---- *)
IsDateToken(tok) ==
  /\ Len(tok) = 10
  /\ \A p \in 1..10 : IF p \in {3, 6} THEN tok[p] = "/" ELSE tok[p] \in Digits

IsTimeToken(tok) ==
  /\ Len(tok) = 5
  /\ \A p \in 1..5 : IF p = 3 THEN tok[p] = ":" ELSE tok[p] \in Digits

TokensOf(topic) == Fields(topic.Title)

IsRange(toks) ==
  /\ Len(toks) >= 4
  /\ IsDateToken(toks[1]) /\ IsTimeToken(toks[2]) /\ toks[3] = <<"-">> /\ IsTimeToken(toks[4])

IsPlain(toks) ==
  /\ Len(toks) >= 2
  /\ IsDateToken(toks[1]) /\ IsTimeToken(toks[2])
  /\ ~(Len(toks) >= 4 /\ toks[3] = <<"-">> /\ IsTimeToken(toks[4]))

RECURSIVE SpaceJoined(_)
SpaceJoined(toks) ==
  IF Len(toks) = 0 THEN <<>>
  ELSE toks[1] \o (IF Len(toks) > 1 THEN <<" ">> ELSE <<>>) \o SpaceJoined(Tail(toks))

UrlOf(topic) == BaseURL \o topic.Slug \o <<"/">> \o Itoa(topic.ID)

(* g's loop runs in this step *)
Extracting(g) == rpc[g] = "loop" /\ rpc'[g] # "loop"

(* the elements of dat[g] the loop got to in this step, the one it         *)
(* panicked on included                                                     *)
Attempted(g) == 1..(IF rpc'[g] = "indexOutOfRange" THEN idx'[g] + 1 ELSE Len(dat[g]))

RecordsOf(records, topic) == SelectSeq(records, LAMBDA e : e.URL = UrlOf(topic))

(* C7: a topic whose title has fewer than 2 tokens makes no out-of-bounds  *)
(* failure and is absent from the output; the loop goes on to the other     *)
(* topics of the batch.                                                     *)
C7_ShortTitleDropped ==
  [][\A g \in Refreshers : Extracting(g) =>
       \A i \in Attempted(g) :
         Len(TokensOf(dat[g][i])) < 2
           => /\ rpc'[g] # "indexOutOfRange"
              /\ RecordsOf(ret'[g], dat[g][i]) = <<>>]_vars

(* C8: a topic whose tokens are date, time, "-", time and then any others  *)
(* yields exactly one record: date = token[0], begin = token[1],            *)
(* end = token[3], title = tokens[4:] joined by single spaces, and          *)
(* url = <base>/t/<slug>/<id>.                                              *)
C8_RangeRecord ==
  [][\A g \in Refreshers : Extracting(g) =>
       \A i \in Attempted(g) :
         LET toks == TokensOf(dat[g][i])
         IN  IsRange(toks)
               => RecordsOf(ret'[g], dat[g][i])
                    = <<[Title |-> SpaceJoined(SubSeq(toks, 5, Len(toks))), Date |-> toks[1],
                         Begin |-> toks[2], End |-> toks[4], URL |-> UrlOf(dat[g][i])]>>]_vars

(* the literal case: "12/05/2024 18:00 - 20:00 Lockpicking Workshop",      *)
(* slug lockpicking-night, id 42                                            *)
C8_Witness ==
  \E g \in Refreshers :
    /\ rpc[g] = "lock"
    /\ ret[g] = <<[Title |-> <<"L","o","c","k","p","i","c","k","i","n","g"," ","W","o","r","k","s","h","o","p">>,
                   Date |-> <<"1","2","/","0","5","/","2","0","2","4">>,
                   Begin |-> <<"1","8",":","0","0">>,
                   End |-> <<"2","0",":","0","0">>,
                   URL |-> BaseURL \o <<"l","o","c","k","p","i","c","k","i","n","g","-","n","i","g","h","t","/","4","2">>]>>

(* C9: a topic with a date token[0] and a time token[1] that is not a      *)
(* range (titles of exactly two tokens, and of three tokens ending in "-",  *)
(* included) yields exactly one record with begin = token[1], end = "" and  *)
(* title = tokens[2:] joined by single spaces.                              *)
C9_PlainRecord ==
  [][\A g \in Refreshers : Extracting(g) =>
       \A i \in Attempted(g) :
         LET toks == TokensOf(dat[g][i])
         IN  IsPlain(toks)
               => RecordsOf(ret'[g], dat[g][i])
                    = <<[Title |-> SpaceJoined(SubSeq(toks, 3, Len(toks))), Date |-> toks[1],
                         Begin |-> toks[2], End |-> <<>>, URL |-> UrlOf(dat[g][i])]>>]_vars

(* C10: only topics whose token[0] is exactly DD/DD/DDDD and whose         *)
(* token[1] is exactly DD:DD get into the output; a record's date and begin *)
(* are those two tokens.                                                    *)
C10_StrictTokens ==
  \A g \in Refreshers : \A k \in 1..Len(ret[g]) :
    IsDateToken(ret[g][k].Date) /\ IsTimeToken(ret[g][k].Begin)

(* C13: the stored count is never negative: a negative count of the feed   *)
(* is rejected or clamped to 0, and never stored.                           *)
C13_CountNonNegative ==
  peoplePresent >= 0

(* ---- the claims about the scheduler ---- *)
(* the refreshes started so far *)
Started == Cardinality({g \in Refreshers : rpc[g] # "idle"})

C12_NextTickStarts ==
  (schedPc = "ticking" /\ ticks < MaxTicks) => ENABLED TimerTick

(* C19: the published set is replaced only by the result of a refresh      *)
(* started later than the one whose result is published: a refresh never    *)
(* publishes once a refresh started after it has published. (The first      *)
(* step that breaks this overwrites the result of a later refresh, since    *)
(* until then every publication was by the latest refresh to publish.)      *)
C19_NoStaleOverwrite ==
  [][\A g \in Refreshers :
       (rpc[g] = "assign" /\ rpc'[g] = "unlock")
         => \A h \in Refreshers : h > g => rpc[h] # "published"]_vars

(* ---- the claims about the published set and its readers ---- *)
(* request r is in the events route between its RLock and its RUnlock *)
ReadingEvents(r) == hroute[r] = "events" /\ hpc[r] \in {"read", "respond"}

(* C16: a read of the events route returns the complete output of one      *)
(* refresh, or the initial empty set: the published set is only ever        *)
(* replaced whole, by the finished result of one refresh and while no       *)
(* reader is in; no refresh is between its Lock and Unlock while a reader   *)
(* is in; and what a reader returns is the set that is published.           *)
C16_StableSnapshot ==
  [][/\ (Events' # Events
           => \E g \in Refreshers :
                /\ rpc[g] = "assign" /\ rpc'[g] = "unlock" /\ Events' = ret[g]
                /\ \A r \in Requests : ~ReadingEvents(r))
     /\ \A r \in Requests :
          ReadingEvents(r)'
            => /\ \A g \in Refreshers : rpc'[g] \notin {"assign", "unlock"}
               /\ (hpc'[r] = "respond" => hresp'[r].events = Events')]_vars

(* a reader holds a published batch while a refresh with another batch     *)
(* waits for it to leave                                                    *)
C16_Witness ==
  \E r \in Requests : \E g \in Refreshers :
    /\ hroute[r] = "events" /\ hpc[r] = "respond" /\ hresp[r].events # <<>>
    /\ rpc[g] = "lockWait" /\ ret[g] # Events

(* the status is one of the 2xx *)
IsSuccess(code) == code >= 200 /\ code < 300

(* C15: a refresh whose response came with a non-2xx status is a soft      *)
(* failure: it leaves the published set as it was, whatever the body.       *)
C15_NonSuccessSoftFailure ==
  [][\A g \in Refreshers :
       (rpc[g] # "idle" /\ StatusCode[g] # 0 /\ ~IsSuccess(StatusCode[g]) /\ rpc'[g] # rpc[g])
         => Events' = Events]_vars

(* C14: a descriptor that could not be loaded (zero-valued, no             *)
(* people_now_present entry) does not abort the process: init() goes on    *)
(* with the default occupancy state and starts the loop and the scheduler.  *)
C14_LoadFailureTolerated ==
  schedPc = "indexOutOfRange" => ~crashed

(* ---- the claims about the feed ---- *)
(* C17: the counts of the feed are applied one at a time and in the order  *)
(* they were delivered, none lost, repeated or out of place: the counts     *)
(* stored so far are the counts delivered so far, but for the one being     *)
(* ingested; once updateStatus is back at the channel every delivered count *)
(* has been stored, and the stored count is the last one delivered.         *)
C17_FeedOrder ==
  /\ Len(applied) <= Len(delivered)
  /\ Len(delivered) <= Len(applied) + 1
  /\ applied = SubSeq(delivered, 1, Len(applied))
  /\ (usPc = "recv" => applied = delivered)
  /\ (applied # <<>> => peoplePresent = applied[Len(applied)])

(* two different counts have been delivered and both are consumed *)
C17_Witness ==
  /\ usPc = "recv" /\ Len(delivered) >= 2
  /\ delivered[1] # delivered[2]
  /\ peoplePresent = delivered[Len(delivered)]

(* C18: a count received from the feed is applied in the end: no state is  *)
(* reached where the process has stopped with a received count that was     *)
(* not applied.                                                             *)
C18_ReceivedIsApplied ==
  crashed => applied = delivered

(* ---- the claim about server.go ---- *)
(* C20: in every response of server.go the open flag is (the count that    *)
(* request got from peopleInSpace > 0), and the count and the open flag of  *)
(* a SpaceAPI response were written by one and the same request.            *)
C20_LegacyResponseConsistent ==
  \A q \in Requests :
    lpc[q] = "responded"
      => /\ lresp[q].open = (data[q] > 0)
         /\ (lroute[q] = "SpaceAPI" => lresp[q].openBy = lresp[q].countBy)

====
